---- MODULE Spec2Model ----
(***************************************************************************)
(* Incremental indexing pipeline of Task6: AutoUpdateManager               *)
(* (update_index.py) driven by main() and by UpdateScheduler               *)
(* (scheduler.py).  One orchestrator process at a time walks through       *)
(* constructor -> run_update (scan, per-file processing, batch write,      *)
(* cache save) -> exit, while the environment edits the watched files.     *)
(***************************************************************************)
EXTENDS Integers, Sequences, FiniteSets, Bags, TLC

VARIABLES
    fs,                     \* file -> [content, readable]: the watched tree
    config,                 \* data_sources.local_folders of the loaded YAML
    cache_file,             \* processed_files_cache.json on disk: key -> hash
    vector_db,              \* the Chroma collection: a bag of stored entries
    pc,                     \* position of the orchestrator process
    processed_files_cache,  \* self.processed_files_cache (in memory)
    new_files,              \* run_update: the (file, hash) pairs still to process
    all_chunks,             \* run_update: the fragments accumulated so far
    stats,                  \* run_update: files_processed, chunks_added, errors
    exit_code,              \* exit status of the last orchestrator process, -1 = none
    launcher,               \* who started the process: "cli" or "sched"
    sched_exit,             \* exit status of `scheduler.py run-once`, -1 = none
    child,                  \* what run_update_script saw: none/rc0/rc1/timeout/nostart
    hist,                   \* history of the current and earlier runs (ghost)
    sch,                    \* `scheduler.py start-interval`: flag, worker, main thread
    api,                    \* one UpdateScheduler driven by start/stop calls
    cron,                   \* the user's crontab and an install_cron/remove_cron call
    chk                     \* one segmentation of a text by the chunker

vars == <<fs, config, cache_file, vector_db, pc, processed_files_cache, new_files,
          all_chunks, stats, exit_code, launcher, sched_exit, child, hist, sch,
          api, cron, chk>>

----------------------------------------------------------------------------
(* Bounds of the exploration *)

MaxRuns == 2        \* run_update invocations explored
MaxEdits == 1       \* environment changes to the watched files explored
IntervalSeconds == 3 \* interval_minutes * 60, the one-second sleeps between cycles
MaxStarts == 2      \* start_interval_mode calls on one UpdateScheduler
MaxCalls == 3       \* install_cron / remove_cron calls on one crontab
MaxLen == 4         \* characters of a document given to the chunker
MaxS == 3           \* largest target fragment size S tried on those documents

----------------------------------------------------------------------------
(* The watched tree.  Paths are relative to script_dir. *)

Files == {"f1", "f2", "f3", "f4"}

\* the files whose bytes or permissions the environment changes
Editable == {"f1", "f2"}

DirOf(f) ==
    CASE f = "f1" -> <<"docs">>
      [] f = "f2" -> <<"docs", "sub">>
      [] f = "f3" -> <<"docs">>
      [] f = "f4" -> <<"other">>

NameOf(f) ==
    CASE f = "f1" -> <<"a", ".", "t", "x", "t">>
      [] f = "f2" -> <<"a", ".", "m", "d">>
      [] f = "f3" -> <<"n", ".", "l", "o", "g">>
      [] f = "f4" -> <<"z", ".", "t", "x", "t">>

\* the order in which one rglob call yields the files of the tree
RglobOrder == <<"f1", "f2", "f3", "f4">>

IsPrefix(p, s) == Len(p) <= Len(s) /\ SubSeq(s, 1, Len(p)) = p

IsSuffix(p, s) == Len(p) <= Len(s) /\ SubSeq(s, Len(s) - Len(p) + 1, Len(s)) = p

\* folder_path.exists(): some file lives in or below the folder
FolderExists(path) == \E f \in Files : IsPrefix(path, DirOf(f))

\* Path.stem: the name up to its last dot (a leading dot is no suffix)
LastDot(name) ==
    LET dots == {i \in 2..Len(name) : name[i] = "."}
    IN  IF dots = {} THEN 0 ELSE CHOOSE i \in dots : \A j \in dots : j <= i

StemOf(name) ==
    IF LastDot(name) = 0 THEN name ELSE SubSeq(name, 1, LastDot(name) - 1)

\* str(file_path.relative_to(self.script_dir)): one key per path
FileKey(f) == f

----------------------------------------------------------------------------
(* File contents.  A content stands for the bytes of a file; Stripped     *)
(* lengths of the fragments the text splitter cuts it into decide what    *)
(* process_file keeps.                                                     *)

Contents == {"E", "S", "A", "B"}

\* "E": empty or whitespace only, so content.strip() is ""
IsBlank(c) == c = "E"

\* len(chunk.page_content.strip()) of each fragment split_documents returns
ChunkLens(c) ==
    CASE c = "E" -> << >>
      [] c = "S" -> <<4>>
      [] c = "A" -> <<12>>
      [] c = "B" -> <<12, 4, 15>>

min_chunk_size == 10

\* hashlib.md5 of the bytes: one digest per content
Md5(c) ==
    CASE c = "E" -> "md5E"
      [] c = "S" -> "md5S"
      [] c = "A" -> "md5A"
      [] c = "B" -> "md5B"

Hashes == {Md5(c) : c \in Contents} \cup {""}

----------------------------------------------------------------------------
(* Configurations: data_sources.local_folders *)

ExtTxt == <<".", "t", "x", "t">>
ExtMd == <<".", "m", "d">>
ExtMdBare == <<"m", "d">>

\* one root, a disabled source and a missing directory
ConfigPlain ==
    << [path |-> <<"docs">>, enabled |-> TRUE, watch_extensions |-> <<ExtTxt, ExtMd>>],
       [path |-> <<"other">>, enabled |-> FALSE, watch_extensions |-> <<ExtTxt>>],
       [path |-> <<"gone">>, enabled |-> TRUE, watch_extensions |-> <<ExtTxt>>] >>

\* a source root nested in another one
ConfigNested ==
    << [path |-> <<"docs">>, enabled |-> TRUE, watch_extensions |-> <<ExtTxt, ExtMd>>],
       [path |-> <<"docs", "sub">>, enabled |-> TRUE, watch_extensions |-> <<ExtMd>>] >>

\* an extension that is a suffix of another one
ConfigSuffix ==
    << [path |-> <<"docs">>, enabled |-> TRUE,
        watch_extensions |-> <<ExtTxt, ExtMd, ExtMdBare>>] >>

\* a source entry without a 'path' key: folder_config['path'] raises KeyError
ConfigNoPath ==
    << [path |-> <<"docs">>, enabled |-> TRUE, watch_extensions |-> <<ExtTxt>>],
       [enabled |-> TRUE, watch_extensions |-> <<ExtTxt>>] >>

\* auto_update_config.yaml as _load_config finds it
Configs ==
    { [exists |-> TRUE, local_folders |-> lf] :
          lf \in {ConfigPlain, ConfigNested, ConfigSuffix, ConfigNoPath} }
    \cup { [exists |-> FALSE, local_folders |-> << >>] }

----------------------------------------------------------------------------
(* Helpers on sequences and mappings *)

RECURSIVE Flatten(_)
Flatten(ss) == IF ss = << >> THEN << >> ELSE Head(ss) \o Flatten(Tail(ss))

Count(x, s) == Cardinality({i \in 1..Len(s) : s[i] = x})

Range(s) == {s[i] : i \in 1..Len(s)}

\* dict[key] = value
Put(d, k, v) == [x \in DOMAIN d \cup {k} |-> IF x = k THEN v ELSE d[x]]

EmptyCache == [k \in {} |-> ""]

\* a cache file opened with mode 'w' whose dump never completed: empty or cut
\* off JSON text, no mapping at all
Truncated == [k \in {"<cut>"} |-> ""]

RECURSIVE SeqToBag(_)
SeqToBag(s) ==
    IF s = << >> THEN EmptyBag ELSE SetToBag({Head(s)}) (+) SeqToBag(Tail(s))

----------------------------------------------------------------------------
(* AutoUpdateManager: the pure parts *)

\* _calculate_file_hash: the digest, or "" when the file cannot be opened
CalculateFileHash(file) == IF file.readable THEN Md5(file.content) ELSE ""

\* folder_path.rglob("*" + ext): files below the folder whose name ends in ext
Rglob(path, ext) ==
    SelectSeq(RglobOrder,
              LAMBDA f : IsPrefix(path, DirOf(f)) /\ IsSuffix(ext, NameOf(f)))

\* folder_config['path'] of an enabled entry that has no such key raises KeyError
EntryRaises(folder) == folder.enabled /\ "path" \notin DOMAIN folder

\* the files one source entry makes the scanner visit, extension by extension
FolderVisits(folder) ==
    IF ~folder.enabled \/ EntryRaises(folder) \/ ~FolderExists(folder.path)
    THEN << >>
    ELSE Flatten([i \in 1..Len(folder.watch_extensions) |->
                     Rglob(folder.path, folder.watch_extensions[i])])

\* the scan raises out of its loop over the source entries
ScanRaises(folders) == \E i \in 1..Len(folders) : EntryRaises(folders[i])

\* every file the loops of scan_for_new_files hash, in order, up to the entry
\* that raises
ScanVisits(folders) ==
    Flatten([i \in 1..Len(folders) |->
                IF \E j \in 1..i : EntryRaises(folders[j])
                THEN << >>
                ELSE FolderVisits(folders[i])])

\* a scanner that reports every file it visits
IsChangedAlways(cache, key, file_hash) == TRUE

\* file_key not in cache or cache[file_key] != file_hash
IsChanged(cache, key, file_hash) == key \notin DOMAIN cache \/ cache[key] # file_hash

\* scan_for_new_files: the (file, hash) pairs of the visits that are new or modified
ScanForNewFiles(folders, files, cache) ==
    LET visits == ScanVisits(folders)
        pairs == [i \in 1..Len(visits) |->
                     <<visits[i], CalculateFileHash(files[visits[i]])>>]
    IN  SelectSeq(pairs, LAMBDA p : IsChanged(cache, FileKey(p[1]), p[2]))

\* relative_path.parts[0] if len(relative_path.parts) > 1 else "root", where
\* relative_path is taken from script_dir: directory segments, then the name
Category(f) == IF Len(DirOf(f)) + 1 > 1 THEN DirOf(f)[1] ELSE "root"

\* a tagger that numbers every fragment of a file 0
ChunkRecordSameId(f, file_hash, c, i, n) ==
    [source |-> FileKey(f),
     chunk_id |-> <<StemOf(NameOf(f)), 0>>,
     chunk_index |-> i,
     total_chunks |-> n,
     file_hash |-> file_hash,
     category |-> Category(f),
     text |-> <<c, i>>]

\* the metadata process_file attaches to fragment i (0-based) of n
ChunkRecord(f, file_hash, c, i, n) ==
    [source |-> FileKey(f),
     chunk_id |-> <<StemOf(NameOf(f)), i>>,
     chunk_index |-> i,
     total_chunks |-> n,
     file_hash |-> file_hash,
     category |-> Category(f),
     text |-> <<c, i>>]

\* read_text fails: process_file logs it and returns []
ReadFails(file) == ~file.readable

\* a process_file without the empty-content check that hands the blank text on
\* as one fragment
ProcessFileKeepsBlank(f, file_hash, file) ==
    IF ReadFails(file)
    THEN << >>
    ELSE IF IsBlank(file.content)
    THEN <<ChunkRecord(f, file_hash, file.content, 0, 1)>>
    ELSE LET lens == ChunkLens(file.content)
             chunks == [i \in 1..Len(lens) |->
                           ChunkRecord(f, file_hash, file.content, i - 1, Len(lens))]
         IN  SelectSeq(chunks, LAMBDA ch : lens[ch.chunk_index + 1] >= min_chunk_size)

\* a process_file that filters before it numbers the fragments
ProcessFileFilterFirst(f, file_hash, file) ==
    IF ReadFails(file) \/ IsBlank(file.content)
    THEN << >>
    ELSE LET lens == ChunkLens(file.content)
             kept == SelectSeq([i \in 1..Len(lens) |-> i],
                               LAMBDA i : lens[i] >= min_chunk_size)
         IN  [j \in 1..Len(kept) |->
                 [ChunkRecord(f, file_hash, file.content, kept[j] - 1, Len(lens))
                     EXCEPT !.chunk_index = j - 1,
                            !.chunk_id = <<StemOf(NameOf(f)), j - 1>>,
                            !.total_chunks = Len(kept)]]

\* process_file: [] for an unreadable or blank file, else the fragments that
\* pass the minimum-size filter, numbered by their position before the filter
ProcessFile(f, file_hash, file) ==
    IF ReadFails(file) \/ IsBlank(file.content)
    THEN << >>
    ELSE LET lens == ChunkLens(file.content)
             chunks == [i \in 1..Len(lens) |->
                           ChunkRecord(f, file_hash, file.content, i - 1, Len(lens))]
         IN  SelectSeq(chunks, LAMBDA ch : lens[ch.chunk_index + 1] >= min_chunk_size)

\* a run_update that forgets to record the processed file
CacheAfterFileNever(cache, f, file_hash, chunks) == cache

\* a run_update that records the file whatever process_file returned
CacheAfterFileAlways(cache, f, file_hash, chunks) == Put(cache, FileKey(f), file_hash)

\* run_update, lines 315-325: the cache entry is set when chunks is non-empty
CacheAfterFile(cache, f, file_hash, chunks) ==
    IF chunks # << >> THEN Put(cache, FileKey(f), file_hash) ELSE cache

\* Chroma add_documents without ids: every document is stored under a fresh id
AddDocuments(db, chunks) == db (+) SeqToBag(chunks)

\* a main that ignores the error count
ExitStatusZero(st) == 0

\* main: sys.exit(1) if results["errors"] > 0 else sys.exit(0)
ExitStatus(st) == IF st.errors > 0 THEN 1 ELSE 0

----------------------------------------------------------------------------
(* State *)

NoStats == [files_processed |-> 0, chunks_added |-> 0, errors |-> 0]

NoHist ==
    [runs |-> 0,                \* run_update invocations and failed constructors so far
     edits |-> 0,               \* environment changes so far
     visited |-> << >>,         \* files hashed by the scan of the current run
     scanned |-> << >>,         \* what that scan returned
     fsAtScan |-> fs,           \* the tree as that scan saw it
     cacheAtScan |-> EmptyCache,    \* the in-memory cache when the run began
     diskAtScan |-> EmptyCache,     \* the cache file when the run began
     dbAtScan |-> EmptyBag,     \* the vector store when the run began
     dirty |-> FALSE,           \* the tree changed since the current run began
     quiet |-> 0,               \* completed runs in a row with an unchanged tree (max 2)
     attempted |-> {},          \* (file, bytes) passed to process_file by completed runs
     attemptedNow |-> {},       \* the same, by the current run
     failedNow |-> {},          \* files whose process_file failed in the current run
     okNow |-> {},              \* files whose process_file gave fragments in this run
     writeFailed |-> FALSE]     \* the batch write of the current run failed

TypeOK ==
    /\ fs \in [Files -> [content : Contents, readable : BOOLEAN]]
    /\ config \in Configs
    /\ DOMAIN cache_file \subseteq Files \/ cache_file = Truncated
    /\ DOMAIN processed_files_cache \subseteq Files
    /\ pc \in {"idle", "ready", "processing", "ran"}
    /\ stats \in [files_processed : Nat, chunks_added : Nat, errors : Nat]
    /\ exit_code \in {-1, 0, 1, -9}
    /\ launcher \in {"cli", "sched"}
    /\ sched_exit \in {-1, 0}
    /\ child \in {"none", "rc0", "rc1", "timeout", "nostart"}
    /\ sch \in [running : BOOLEAN,
                main : {"start", "loop", "joining", "exited"},
                worker : {"none", "test", "cycle", "wait", "done", "killed"},
                left : 0..IntervalSeconds,
                stopAt : {"none", "test", "cycle", "wait"}]
    /\ api \in [running : BOOLEAN, starts : 0..MaxStarts, thread : 0..MaxStarts,
                caller : {"idle", "joining"},
                w : [1..MaxStarts -> {"none", "test", "cycle", "wait", "done"}]]
    /\ cron.pc \in {"unset", "idle", "listing", "writing"}
    /\ cron.cmd \in {"none", "install", "remove"}
    /\ Len(cron.seq) <= MaxCalls
    /\ chk.pc \in {"idle", "run", "done"}
    /\ chk.O < chk.S

\* UpdateScheduler.__init__: running = False, thread = None
NoSched == [running |-> FALSE, main |-> "start", worker |-> "none", left |-> 0,
            stopAt |-> "none"]

\* one UpdateScheduler before its first start_interval_mode: no thread yet
NoApi == [running |-> FALSE, starts |-> 0, thread |-> 0, caller |-> "idle",
          w |-> [i \in 1..MaxStarts |-> "none"]]

\* before the user's crontab is known: no install_cron or remove_cron yet
NoCron == [pc |-> "unset", cmd |-> "none", has |-> FALSE, tab |-> <<"">>,
           orig |-> <<"">>, new |-> <<"">>, timeout |-> "none", hung |-> FALSE,
           seq |-> << >>]

\* no segmentation under way
NoChk == [pc |-> "idle", doc |-> << >>, text |-> << >>, S |-> 1, O |-> 0, M |-> 1,
          seps |-> << << >> >>, todo |-> << >>, buffer |-> << >>, out |-> << >>]

\* the cache file a process may find: none yet, or, where every run of the
\* configuration is fatal, also one left by runs under an earlier configuration
InitialCaches(cfg) ==
    IF ~cfg.exists \/ ScanRaises(cfg.local_folders)
    THEN {EmptyCache, [k \in {FileKey("f1")} |-> Md5("A")]}
    ELSE {EmptyCache}

\* the state after construction, over the given configurations and the given
\* contents of the two files that vary
InitOver(configs, c1, c2) ==
    /\ fs \in [Files -> [content : Contents, readable : {TRUE}]]
    /\ fs["f1"].content \in c1
    /\ fs["f2"].content \in c2
    /\ \A f \in Files \ Editable : fs[f].content = "A"
    /\ config \in configs
    /\ cache_file \in InitialCaches(config)
    /\ vector_db = AddDocuments(EmptyBag, Flatten([i \in 1..Len(RglobOrder) |->
           IF FileKey(RglobOrder[i]) \in DOMAIN cache_file
           THEN ProcessFile(RglobOrder[i], cache_file[FileKey(RglobOrder[i])],
                            [content |-> "A", readable |-> TRUE])
           ELSE << >>]))
    /\ pc = "idle"
    /\ processed_files_cache = EmptyCache
    /\ new_files = << >>
    /\ all_chunks = << >>
    /\ stats = NoStats
    /\ exit_code = -1
    /\ launcher = "cli"
    /\ sched_exit = -1
    /\ child = "none"
    /\ hist = NoHist
    /\ sch = NoSched
    /\ api = NoApi
    /\ cron = NoCron
    /\ chk = NoChk

Init == InitOver(Configs, {"A", "S"}, {"B", "E"})

----------------------------------------------------------------------------
(* The environment: files are edited and their permissions change *)

Touched(h) == [h EXCEPT !.edits = @ + 1, !.dirty = TRUE, !.quiet = 0]

EditFile(f, c) ==
    /\ hist.edits < MaxEdits
    /\ fs[f].content # c
    /\ fs' = [fs EXCEPT ![f].content = c]
    /\ hist' = Touched(hist)
    /\ UNCHANGED <<sch, api, cron, chk, config, cache_file, vector_db, pc, processed_files_cache, new_files,
                   all_chunks, stats, exit_code, launcher, sched_exit, child>>

Chmod(f) ==
    /\ hist.edits < MaxEdits
    /\ fs' = [fs EXCEPT ![f].readable = ~@]
    /\ hist' = Touched(hist)
    /\ UNCHANGED <<sch, api, cron, chk, config, cache_file, vector_db, pc, processed_files_cache, new_files,
                   all_chunks, stats, exit_code, launcher, sched_exit, child>>

----------------------------------------------------------------------------
(* main() of update_index.py and AutoUpdateManager.run_update *)

\* _load_processed_files: the mapping of the cache file, {} when json.load
\* raises
LoadProcessedFiles(disk) == IF disk = Truncated THEN EmptyCache ELSE disk

\* _save_processed_files: the whole in-memory mapping replaces the file (the
\* open and the dump are taken to succeed; a process killed before this point
\* saves nothing)
SaveProcessedFiles(cache) == cache

\* the exit status a finished child leaves in run_update_script
ChildStatus(l, rc) == IF l = "sched" THEN (IF rc = 0 THEN "rc0" ELSE "rc1") ELSE "none"

\* scheduler main, run-once: run_update_script returns nothing and main falls
\* off its end, so the scheduler exits 0 whatever the child did
SchedStatus(l) == IF l = "sched" THEN 0 ELSE -1

\* AutoUpdateManager(): _load_config raises when the file is missing, and main
\* turns that into exit status 1
CtorFails(l) ==
    /\ pc = "idle"
    /\ hist.runs < MaxRuns
    /\ ~config.exists
    /\ exit_code' = 1
    /\ launcher' = l
    /\ child' = ChildStatus(l, 1)
    /\ sched_exit' = SchedStatus(l)
    /\ stats' = NoStats
    /\ hist' = [hist EXCEPT !.runs = @ + 1, !.diskAtScan = cache_file,
                            !.dbAtScan = vector_db]
    /\ UNCHANGED <<sch, api, cron, chk, fs, config, cache_file, vector_db, pc, processed_files_cache,
                   new_files, all_chunks>>

\* AutoUpdateManager(): configuration, cache and components are loaded
Construct(l) ==
    /\ pc = "idle"
    /\ hist.runs < MaxRuns
    /\ config.exists
    /\ pc' = "ready"
    /\ processed_files_cache' = LoadProcessedFiles(cache_file)
    /\ launcher' = l
    /\ child' = "none"
    /\ sched_exit' = -1
    /\ exit_code' = -1
    /\ stats' = NoStats
    /\ UNCHANGED <<sch, api, cron, chk, fs, config, cache_file, vector_db, new_files, all_chunks, hist>>

\* the history of a run that begins now
RunBegins(h, scanned) ==
    [h EXCEPT !.runs = @ + 1,
              !.visited = ScanVisits(config.local_folders),
              !.scanned = scanned,
              !.fsAtScan = fs,
              !.cacheAtScan = processed_files_cache,
              !.diskAtScan = cache_file,
              !.dbAtScan = vector_db,
              !.dirty = FALSE,
              !.attemptedNow = {},
              !.failedNow = {},
              !.okNow = {},
              !.writeFailed = FALSE]

\* the history of a run that ends now
RunEnds(h) ==
    [h EXCEPT !.quiet = IF h.dirty THEN 0 ELSE IF @ < 2 THEN @ + 1 ELSE 2,
              !.attempted = @ \cup h.attemptedNow]

\* run_update, the scan raises: the outer handler counts one error
ScanFatal ==
    /\ pc \in {"ready", "ran"}
    /\ hist.runs < MaxRuns
    /\ ScanRaises(config.local_folders)
    /\ stats' = [NoStats EXCEPT !.errors = 1]
    /\ new_files' = << >>
    /\ all_chunks' = << >>
    /\ pc' = "ran"
    /\ hist' = RunEnds(RunBegins(hist, << >>))
    /\ UNCHANGED <<sch, api, cron, chk, fs, config, cache_file, vector_db, processed_files_cache, exit_code,
                   launcher, sched_exit, child>>

\* run_update, the scan finds nothing new: nothing is written or saved
ScanNothing ==
    /\ pc \in {"ready", "ran"}
    /\ hist.runs < MaxRuns
    /\ ~ScanRaises(config.local_folders)
    /\ ScanForNewFiles(config.local_folders, fs, processed_files_cache) = << >>
    /\ stats' = NoStats
    /\ new_files' = << >>
    /\ all_chunks' = << >>
    /\ pc' = "ran"
    /\ hist' = RunEnds(RunBegins(hist, << >>))
    /\ UNCHANGED <<sch, api, cron, chk, fs, config, cache_file, vector_db, processed_files_cache, exit_code,
                   launcher, sched_exit, child>>

\* run_update, the scan finds new or modified files
ScanFinds ==
    /\ pc \in {"ready", "ran"}
    /\ hist.runs < MaxRuns
    /\ ~ScanRaises(config.local_folders)
    /\ LET found == ScanForNewFiles(config.local_folders, fs, processed_files_cache)
       IN  /\ found # << >>
           /\ new_files' = found
           /\ hist' = RunBegins(hist, found)
    /\ stats' = NoStats
    /\ all_chunks' = << >>
    /\ pc' = "processing"
    /\ UNCHANGED <<sch, api, cron, chk, fs, config, cache_file, vector_db, processed_files_cache, exit_code,
                   launcher, sched_exit, child>>

\* run_update, one iteration of the loop over new_files (lines 312-329)
ProcessNext ==
    /\ pc = "processing"
    /\ new_files # << >>
    /\ LET f == Head(new_files)[1]
           file_hash == Head(new_files)[2]
           chunks == ProcessFile(f, file_hash, fs[f])
       IN  /\ all_chunks' = all_chunks \o chunks
           /\ stats' = IF chunks # << >>
                        THEN [stats EXCEPT !.files_processed = @ + 1]
                        ELSE stats
           /\ processed_files_cache' =
                  CacheAfterFile(processed_files_cache, f, file_hash, chunks)
           /\ hist' = [hist EXCEPT
                  !.attemptedNow = @ \cup {<<f, hist.fsAtScan[f].content>>},
                  !.failedNow = IF ReadFails(fs[f]) THEN @ \cup {f} ELSE @,
                  !.okNow = IF chunks # << >> THEN @ \cup {f} ELSE @]
    /\ new_files' = Tail(new_files)
    /\ UNCHANGED <<sch, api, cron, chk, fs, config, cache_file, vector_db, pc, exit_code, launcher,
                   sched_exit, child>>

\* update_vector_db: the count written; 0 for an empty batch or a failed write
UpdateVectorDbCount(chunks, ok) == IF ok THEN Len(chunks) ELSE 0

\* run_update, lines 331-337: the batch write, then the cache is saved, whether
\* or not the write succeeded (update_vector_db swallows the exception)
Finalize(ok) ==
    /\ pc = "processing"
    /\ new_files = << >>
    /\ ok \/ all_chunks # << >>
    /\ vector_db' = IF ok THEN AddDocuments(vector_db, all_chunks) ELSE vector_db
    /\ stats' = [stats EXCEPT !.chunks_added = UpdateVectorDbCount(all_chunks, ok)]
    /\ cache_file' = SaveProcessedFiles(processed_files_cache)
    /\ pc' = "ran"
    /\ hist' = RunEnds([hist EXCEPT !.writeFailed = ~ok])
    /\ UNCHANGED <<sch, api, cron, chk, fs, config, processed_files_cache, new_files, all_chunks, exit_code,
                   launcher, sched_exit, child>>

\* main, lines 381-385: the process ends with the status of the run
Exit ==
    /\ pc = "ran"
    /\ exit_code' = ExitStatus(stats)
    /\ child' = ChildStatus(launcher, ExitStatus(stats))
    /\ sched_exit' = SchedStatus(launcher)
    /\ pc' = "idle"
    /\ processed_files_cache' = EmptyCache
    /\ all_chunks' = << >>
    /\ UNCHANGED <<sch, api, cron, chk, fs, config, cache_file, vector_db, new_files, stats, launcher, hist>>

----------------------------------------------------------------------------
(* UpdateScheduler.run_update_script, command run-once *)

\* subprocess.run raises: the child could not be started
LaunchFails ==
    /\ pc = "idle"
    /\ hist.runs < MaxRuns
    /\ launcher' = "sched"
    /\ child' = "nostart"
    /\ sched_exit' = SchedStatus("sched")
    /\ exit_code' = -1
    /\ hist' = [hist EXCEPT !.runs = @ + 1]
    /\ UNCHANGED <<sch, api, cron, chk, fs, config, cache_file, vector_db, pc, processed_files_cache,
                   new_files, all_chunks, stats>>

\* subprocess.TimeoutExpired: the child is killed where it stands
Timeout ==
    /\ launcher = "sched"
    /\ pc \in {"ready", "processing", "ran"}
    /\ pc' = "idle"
    /\ exit_code' = -9
    /\ child' = "timeout"
    /\ sched_exit' = SchedStatus("sched")
    /\ processed_files_cache' = EmptyCache
    /\ new_files' = << >>
    /\ all_chunks' = << >>
    /\ UNCHANGED <<sch, api, cron, chk, fs, config, cache_file, vector_db, stats, launcher, hist>>

\* the process dies inside _save_processed_files, after open(cache_file, 'w')
\* has emptied the file and before the dumped text is complete; the batch
\* write before it has happened or failed
CrashInSave(ok) ==
    /\ pc = "processing"
    /\ new_files = << >>
    /\ ok \/ all_chunks # << >>
    /\ vector_db' = IF ok THEN AddDocuments(vector_db, all_chunks) ELSE vector_db
    /\ cache_file' = Truncated
    /\ pc' = "idle"
    /\ exit_code' = -9
    /\ child' = IF launcher = "sched" THEN "rc1" ELSE "none"
    /\ sched_exit' = SchedStatus(launcher)
    /\ processed_files_cache' = EmptyCache
    /\ all_chunks' = << >>
    /\ UNCHANGED <<sch, api, cron, chk, fs, config, new_files, stats, launcher, hist>>

----------------------------------------------------------------------------
(* UpdateScheduler, command start-interval: the main thread and the worker *)

\* what a scheduler step leaves alone: everything of the orchestrator but the
\* status run_update_script saw
orchVars == <<fs, config, cache_file, vector_db, pc, processed_files_cache, new_files,
              all_chunks, stats, exit_code, launcher, sched_exit, hist, api, cron, chk>>

\* the outcomes of one run_update_script: exit 0, non-zero exit,
\* TimeoutExpired, another exception of subprocess.run
Outcomes == {"rc0", "rc1", "timeout", "nostart"}
Failed == {"rc1", "timeout", "nostart"}

\* a worker whose loop is `while True`
LoopTestAlways(running) == TRUE

\* interval_worker, line 92: while self.running
LoopTest(running) == running

\* a worker that lets a failed cycle end its loop
AfterCycleLeaves(outcome) == IF outcome \in Failed THEN "done" ELSE "wait"

\* interval_worker, lines 95-100: run_update_script returns normally whatever
\* the outcome (it catches TimeoutExpired and Exception), so the worker always
\* goes on to the interval wait and the except branch of line 105 is not taken
AfterCycle(outcome) == "wait"

\* start_interval_mode, lines 115-128: set the flag, start the daemon thread,
\* install the signal handlers, enter the loop of line 132
StartIntervalMode ==
    /\ sch.main = "start"
    /\ sch' = [sch EXCEPT !.running = TRUE, !.main = "loop", !.worker = "test"]
    /\ UNCHANGED <<orchVars, child>>

\* interval_worker, lines 92-95: the loop test; when it passes the cycle begins
WorkerTest ==
    /\ sch.worker = "test"
    /\ sch' = [sch EXCEPT !.worker = IF LoopTest(sch.running) THEN "cycle" ELSE "done"]
    /\ UNCHANGED <<orchVars, child>>

\* run_update_script returns: the cycle is over, the wait begins
CycleEnds(outcome) ==
    /\ sch.worker = "cycle"
    /\ child' = outcome
    /\ sch' = [sch EXCEPT !.worker = AfterCycle(outcome), !.left = IntervalSeconds]
    /\ UNCHANGED orchVars

\* interval_worker, lines 100-103: one iteration of the wait, break when the
\* flag is down, else sleep one second
WaitTick ==
    /\ sch.worker = "wait"
    /\ sch.left > 0
    /\ sch' = IF sch.running
              THEN [sch EXCEPT !.left = @ - 1]
              ELSE [sch EXCEPT !.worker = "test"]
    /\ UNCHANGED <<orchVars, child>>

\* the for loop of line 100 is exhausted: back to the loop test
WaitOver ==
    /\ sch.worker = "wait"
    /\ sch.left = 0
    /\ sch' = [sch EXCEPT !.worker = "test"]
    /\ UNCHANGED <<orchVars, child>>

\* SIGINT or SIGTERM, lines 122-124: the handler calls stop, which lowers the
\* flag and joins the thread for at most five seconds (lines 141-143)
Signal ==
    /\ sch.main = "loop"
    /\ sch' = [sch EXCEPT !.running = FALSE, !.main = "joining", !.stopAt = sch.worker]
    /\ UNCHANGED <<orchVars, child>>

\* join returns because the worker has ended; sys.exit(0), line 125
JoinReturns ==
    /\ sch.main = "joining"
    /\ sch.worker = "done"
    /\ sch' = [sch EXCEPT !.main = "exited"]
    /\ UNCHANGED <<orchVars, child>>

\* join(timeout=5) gives up while the worker is still in run_update_script (a
\* cycle may last up to the 3600 s of line 71; a worker in the one-second
\* sleeps ends within the five); sys.exit(0) then ends the process and with
\* it the daemon thread
JoinTimesOut ==
    /\ sch.main = "joining"
    /\ sch.worker = "cycle"
    /\ sch' = [sch EXCEPT !.main = "exited", !.worker = "killed"]
    /\ UNCHANGED <<orchVars, child>>

WorkerStep ==
    \/ WorkerTest
    \/ \E outcome \in Outcomes : CycleEnds(outcome)
    \/ WaitTick
    \/ WaitOver

NextSched ==
    \/ StartIntervalMode
    \/ WorkerStep
    \/ Signal
    \/ JoinReturns
    \/ JoinTimesOut

\* the scheduler is started over one tree and an existing configuration (its
\* constructor raises without one, lines 35-36)
InitSched ==
    InitOver({[exists |-> TRUE, local_folders |-> ConfigPlain]}, {"A"}, {"B"})

SpecSched == InitSched /\ [][NextSched]_vars

\* the worker thread is scheduled: a sleep returns, a child ends or times out
SpecSchedFair == InitSched /\ [][NextSched]_vars /\ WF_vars(WorkerStep)

----------------------------------------------------------------------------
(* The Recursive Chunker behind self.text_splitter, segmenting the text of  *)
(* one document. Texts are sequences of characters.                         *)

Whitespace == {" ", "\n"}

\* str.strip(): leading and trailing whitespace removed
RECURSIVE Strip(_)
Strip(t) ==
    IF t = << >> THEN t
    ELSE IF Head(t) \in Whitespace THEN Strip(Tail(t))
    ELSE IF t[Len(t)] \in Whitespace THEN Strip(SubSeq(t, 1, Len(t) - 1))
    ELSE t

\* the pieces of t between occurrences of the non-empty separator sep, each
\* piece ending with the separator that followed it
RECURSIVE SplitAt(_, _, _)
SplitAt(t, sep, from) ==
    IF t = << >> THEN << >>
    ELSE IF from + Len(sep) - 1 > Len(t) THEN <<t>>
    ELSE IF SubSeq(t, from, from + Len(sep) - 1) = sep
    THEN <<SubSeq(t, 1, from + Len(sep) - 1)>>
             \o SplitAt(SubSeq(t, from + Len(sep), Len(t)), sep, 1)
    ELSE SplitAt(t, sep, from + 1)

\* a split that leaves the text whole at the empty separator
SplitOnNoBase(t, sep) == IF sep = << >> THEN <<t>> ELSE SplitAt(t, sep, 1)

\* step 1: split on the separator, keeping it; the empty separator splits
\* into single characters
SplitOn(t, sep) ==
    IF sep = << >> THEN [i \in 1..Len(t) |-> <<t[i]>>] ELSE SplitAt(t, sep, 1)

\* a seed taken from the front of the closed fragment
SeedFront(fragment, O) ==
    IF Len(fragment) <= O THEN fragment ELSE SubSeq(fragment, 1, O)

\* step 4: the trailing slice of length O of the closed fragment, the whole
\* fragment when it is shorter
Seed(fragment, O) ==
    IF Len(fragment) <= O THEN fragment
    ELSE SubSeq(fragment, Len(fragment) - O + 1, Len(fragment))

\* the pieces of one split, each with the index of the separator that made it
Pieces(t, seps, lvl) ==
    LET ps == SplitOn(t, seps[lvl]) IN [i \in 1..Len(ps) |-> [piece |-> ps[i], lvl |-> lvl]]

\* step 6: the fragments whose trimmed length is at least M
Final(out, M) == SelectSeq(out, LAMBDA fr : Len(Strip(fr)) >= M)

\* the documents, sizes and separator lists tried, and the document of
\* scenario A with its configuration
Alphabet == {"a", "b", " "}
Documents == UNION {[1..n -> Alphabet] : n \in 0..MaxLen}
SepsSpace == << <<" ">>, << >> >>
SepsParagraph == << <<"\n", "\n">>, << >> >>
ScenarioA ==
    <<"A", "l", "p", "h", "a", ".", "\n", "\n", "B", "e", "t", "a", ".", "\n", "\n",
      "G", "a", "m", "m", "a", ".">>
ChunkInputs ==
    { [doc |-> d, S |-> sz, O |-> ov, M |-> 1, seps |-> SepsSpace] :
        d \in Documents, sz \in 1..MaxS, ov \in 0..MaxS - 1 } \cup
    { [doc |-> ScenarioA, S |-> 12, O |-> 3, M |-> 1, seps |-> SepsParagraph] }

\* what a step of the segmentation leaves alone
chunkFrame == <<fs, config, cache_file, vector_db, pc, processed_files_cache, new_files,
                all_chunks, stats, exit_code, launcher, sched_exit, child, hist, sch, api,
                cron>>

\* process_file, lines 207-229: the content is read and stripped, an empty
\* one is skipped, else the splitter is given the stripped text
ChunkBegin(in) ==
    /\ chk.pc = "idle"
    /\ in.O < in.S
    /\ LET content == Strip(in.doc)
       IN  chk' = [chk EXCEPT !.pc = IF content = << >> THEN "done" ELSE "run",
                              !.doc = in.doc, !.text = content, !.S = in.S, !.O = in.O,
                              !.M = in.M, !.seps = in.seps,
                              !.todo = IF content = << >> THEN << >>
                                       ELSE Pieces(content, in.seps, 1)]
    /\ UNCHANGED chunkFrame

\* step 3: the next piece alone exceeds S: split it on the next separator
ChunkRecurse ==
    /\ chk.pc = "run"
    /\ chk.todo # << >>
    /\ Len(Head(chk.todo).piece) > chk.S
    /\ Head(chk.todo).lvl < Len(chk.seps)
    /\ chk' = [chk EXCEPT !.todo =
                   Pieces(Head(chk.todo).piece, chk.seps, Head(chk.todo).lvl + 1)
                       \o Tail(chk.todo)]
    /\ UNCHANGED chunkFrame

\* step 2: the next piece fits: append it to the buffer
ChunkAppend ==
    /\ chk.pc = "run"
    /\ chk.todo # << >>
    /\ Len(Head(chk.todo).piece) <= chk.S
    /\ Len(chk.buffer) + Len(Head(chk.todo).piece) <= chk.S
    /\ chk' = [chk EXCEPT !.buffer = @ \o Head(chk.todo).piece, !.todo = Tail(@)]
    /\ UNCHANGED chunkFrame

\* steps 2 and 4: the next piece does not fit: close the buffer as a
\* fragment, seed the next buffer from it, then append the piece
ChunkClose ==
    /\ chk.pc = "run"
    /\ chk.todo # << >>
    /\ Len(Head(chk.todo).piece) <= chk.S
    /\ Len(chk.buffer) + Len(Head(chk.todo).piece) > chk.S
    /\ chk.buffer # << >>
    /\ chk' = [chk EXCEPT !.out = Append(@, chk.buffer),
                          !.buffer = Seed(chk.buffer, chk.O) \o Head(chk.todo).piece,
                          !.todo = Tail(@)]
    /\ UNCHANGED chunkFrame

\* step 5: all pieces consumed: the last non-empty buffer is a fragment
ChunkFinish ==
    /\ chk.pc = "run"
    /\ chk.todo = << >>
    /\ chk' = [chk EXCEPT !.pc = "done",
                          !.out = IF chk.buffer = << >> THEN @ ELSE Append(@, chk.buffer),
                          !.buffer = << >>]
    /\ UNCHANGED chunkFrame

ChunkStep ==
    \/ ChunkRecurse
    \/ ChunkAppend
    \/ ChunkClose
    \/ ChunkFinish

NextChunk ==
    \/ \E in \in ChunkInputs : ChunkBegin(in)
    \/ ChunkStep

SpecChunk == InitSched /\ [][NextChunk]_vars

\* the segmentation goes on as long as it has a step to take
SpecChunkFair == InitSched /\ [][NextChunk]_vars /\ WF_vars(ChunkStep)

----------------------------------------------------------------------------
(* UpdateScheduler.install_cron and remove_cron. A crontab text is kept as  *)
(* the list text.split('\n') gives: "a\nb\n" is <<"a", "b", "">>.            *)

\* the lines that occur: two jobs of the user, a comment of the user that
\* quotes the marker, the blank line, the marker comment and the cron entry
\* of generate_cron_entry
Marker == "# Auto-update RAG index"
CronEntry == "0 6 * * * cd DIR && python DIR/update_index.py >> DIR/logs/cron.log 2>&1"
UserMarker == "# was: Auto-update RAG index"
CronLines == {"u1", "u2", "", UserMarker, Marker, CronEntry}

\* "update_index.py" in line
HasScript(line) == line = CronEntry

\* "Auto-update RAG index" in line
HasMarker(line) == line \in {Marker, UserMarker}

\* the crontabs the user starts from (has = FALSE: `crontab -l` fails, there
\* is none), none with a line containing update_index.py
Originals ==
    { [has |-> FALSE, tab |-> <<"">>] } \cup
    { [has |-> TRUE, tab |-> t] :
        t \in { <<"">>, <<"u1", "">>, <<"u1">>, <<"u1", "u2", "">>, <<"u1", "", "u2", "">>,
                <<UserMarker, "">>, <<"u1", UserMarker, "u2", "">> } }

\* the timeout= argument of the subprocess calls: 3600 for update_index.py
\* (line 71), none for `crontab -l` (lines 168, 203) and `crontab -` (lines
\* 180-181, 226-227)
SubprocessTimeout(program) == IF program = "update_index" THEN "3600" ELSE "none"

\* current_crontab + "\n# Auto-update RAG index\n" + cron_entry + "\n"
InstallText(cur) == cur \o <<Marker, CronEntry, "">>

\* an install_cron that never finds its job
AlreadyInstalledNever(cur) == FALSE

\* "update_index.py" in current_crontab
AlreadyInstalled(cur) == \E i \in 1..Len(cur) : HasScript(cur[i])

\* remove_cron, lines 211-221: the loop over the lines with its skip_next flag
RECURSIVE FilterLines(_, _, _)
FilterLines(lines, skip_next, filtered_lines) ==
    IF lines = << >> THEN filtered_lines
    ELSE LET line == Head(lines)
         IN  IF HasMarker(line)
             THEN FilterLines(Tail(lines), TRUE, filtered_lines)
             ELSE IF skip_next /\ HasScript(line)
             THEN FilterLines(Tail(lines), FALSE, filtered_lines)
             ELSE IF ~HasScript(line)
             THEN FilterLines(Tail(lines), skip_next, Append(filtered_lines, line))
             ELSE FilterLines(Tail(lines), skip_next, filtered_lines)

\* '\n'.join(filtered_lines): of no line, the empty text
RemoveText(cur) ==
    LET kept == FilterLines(cur, FALSE, << >>)
    IN  IF kept = << >> THEN <<"">> ELSE kept

\* what a step of the crontab commands leaves alone
cronFrame == <<fs, config, cache_file, vector_db, pc, processed_files_cache, new_files,
               all_chunks, stats, exit_code, launcher, sched_exit, child, hist, sch, api,
               chk>>

\* a call has returned ret
CronDone(c, ret) == [c EXCEPT !.pc = "idle", !.seq = Append(@, <<c.cmd, ret>>)]

\* the crontab the commands find
CrontabIs(o) ==
    /\ cron.pc = "unset"
    /\ cron' = [cron EXCEPT !.pc = "idle", !.has = o.has, !.tab = o.tab, !.orig = o.tab]
    /\ UNCHANGED cronFrame

\* install_cron / remove_cron start `crontab -l` (lines 168, 203)
CronCall(cmd) ==
    /\ cron.pc = "idle"
    /\ Len(cron.seq) < MaxCalls
    /\ cron' = [cron EXCEPT !.pc = "listing", !.cmd = cmd,
                            !.timeout = SubprocessTimeout("crontab")]
    /\ UNCHANGED cronFrame

\* the external process never returns; nothing ends the wait for it
CrontabHangs ==
    /\ cron.pc \in {"listing", "writing"}
    /\ ~cron.hung
    /\ cron.timeout = "none"
    /\ cron' = [cron EXCEPT !.hung = TRUE]
    /\ UNCHANGED cronFrame

\* subprocess.run or Popen raises (no crontab program): except, return False
CrontabRaises ==
    /\ cron.pc \in {"listing", "writing"}
    /\ ~cron.hung
    /\ cron' = CronDone(cron, FALSE)
    /\ UNCHANGED cronFrame

\* `crontab -l` has returned: install_cron lines 169-181, remove_cron lines
\* 204-227
ListReturns ==
    /\ cron.pc = "listing"
    /\ ~cron.hung
    /\ LET cur == IF cron.has THEN cron.tab ELSE <<"">>
       IN  cron' =
             IF cron.cmd = "install"
             THEN IF AlreadyInstalled(cur)
                  THEN CronDone(cron, TRUE)
                  ELSE [cron EXCEPT !.pc = "writing", !.new = InstallText(cur)]
             ELSE IF ~cron.has
                  THEN CronDone(cron, TRUE)
                  ELSE [cron EXCEPT !.pc = "writing", !.new = RemoveText(cur)]
    /\ UNCHANGED cronFrame

\* `crontab -` has returned with returncode rc
WriteReturns(rc) ==
    /\ cron.pc = "writing"
    /\ ~cron.hung
    /\ cron' = IF rc = 0
               THEN [CronDone(cron, TRUE) EXCEPT !.has = TRUE, !.tab = cron.new]
               ELSE CronDone(cron, FALSE)
    /\ UNCHANGED cronFrame

NextCron ==
    \/ \E o \in Originals : CrontabIs(o)
    \/ \E cmd \in {"install", "remove"} : CronCall(cmd)
    \/ CrontabHangs
    \/ CrontabRaises
    \/ ListReturns
    \/ \E rc \in {0, 1} : WriteReturns(rc)

SpecCron == InitSched /\ [][NextCron]_vars

----------------------------------------------------------------------------
(* UpdateScheduler as an object: start_interval_mode and stop called again  *)
(* and again, each start with its own thread                                *)

\* what a step of the start/stop calls or of one of the threads leaves alone
apiFrame == <<fs, config, cache_file, vector_db, pc, processed_files_cache, new_files,
              all_chunks, stats, exit_code, launcher, sched_exit, hist, sch, cron, chk>>

\* the threads that are inside interval_worker's loop
InLoop == {i \in 1..MaxStarts : api.w[i] \in {"test", "cycle", "wait"}}

\* start_interval_mode, lines 111-117: refused while running is set, else the
\* flag goes up and a new thread replaces self.thread
ApiStart ==
    /\ api.caller = "idle"
    /\ ~api.running
    /\ api.starts < MaxStarts
    /\ api' = [api EXCEPT !.running = TRUE, !.starts = @ + 1, !.thread = api.starts + 1,
                          !.w = [@ EXCEPT ![api.starts + 1] = "test"]]
    /\ UNCHANGED <<apiFrame, child>>

\* interval_worker in thread i, line 92: the loop test reads the shared flag
ApiWorkerTest(i) ==
    /\ api.w[i] = "test"
    /\ api' = [api EXCEPT !.w = [@ EXCEPT ![i] =
                   IF LoopTest(api.running) THEN "cycle" ELSE "done"]]
    /\ UNCHANGED <<apiFrame, child>>

\* run_update_script returns in thread i
ApiCycleEnds(i, outcome) ==
    /\ api.w[i] = "cycle"
    /\ child' = outcome
    /\ api' = [api EXCEPT !.w = [@ EXCEPT ![i] = AfterCycle(outcome)]]
    /\ UNCHANGED apiFrame

\* the wait of thread i ends: the interval is over or the flag was seen down
ApiWaitEnds(i) ==
    /\ api.w[i] = "wait"
    /\ api' = [api EXCEPT !.w = [@ EXCEPT ![i] = "test"]]
    /\ UNCHANGED <<apiFrame, child>>

\* stop, lines 139-143: lower the flag, join self.thread if it is alive
ApiStop ==
    /\ api.caller = "idle"
    /\ api.running
    /\ api' = [api EXCEPT !.running = FALSE,
                          !.caller = IF api.w[api.thread] # "done" THEN "joining" ELSE "idle"]
    /\ UNCHANGED <<apiFrame, child>>

\* the join of stop returns: the thread ended, or the five seconds passed
\* with the thread still in run_update_script
ApiJoinEnds ==
    /\ api.caller = "joining"
    /\ api.w[api.thread] \in {"done", "cycle"}
    /\ api' = [api EXCEPT !.caller = "idle"]
    /\ UNCHANGED <<apiFrame, child>>

NextApi ==
    \/ ApiStart
    \/ \E i \in 1..MaxStarts : ApiWorkerTest(i)
    \/ \E i \in 1..MaxStarts, outcome \in Outcomes : ApiCycleEnds(i, outcome)
    \/ \E i \in 1..MaxStarts : ApiWaitEnds(i)
    \/ ApiStop
    \/ ApiJoinEnds

SpecApi == InitSched /\ [][NextApi]_vars

----------------------------------------------------------------------------

Next ==
    \/ \E f \in Editable, c \in Contents : EditFile(f, c)
    \/ \E f \in Editable : Chmod(f)
    \/ \E l \in {"cli", "sched"} : CtorFails(l)
    \/ \E l \in {"cli", "sched"} : Construct(l)
    \/ ScanFatal
    \/ ScanNothing
    \/ ScanFinds
    \/ ProcessNext
    \/ \E ok \in BOOLEAN : Finalize(ok)
    \/ Exit
    \/ LaunchFails
    \/ Timeout

Spec == Init /\ [][Next]_vars

\* the same program on a machine where the process can also die while it
\* writes the cache file
NextCrash ==
    \/ Next
    \/ \E ok \in BOOLEAN : CrashInSave(ok)

SpecCrash == Init /\ [][NextCrash]_vars

----------------------------------------------------------------------------
(* Properties *)

\* the entry of key k in mapping d, as a set: empty when absent
Entry(d, k) == IF k \in DOMAIN d THEN {d[k]} ELSE {}

\* the hash the scan of the current run paired with file f
ScannedHashes(f) == {p[2] : p \in {q \in Range(hist.scanned) : q[1] = f}}

\* f lies under an enabled, existing source root and its name ends in one of
\* that root's watched extensions
Watched(f) ==
    \E i \in 1..Len(config.local_folders) :
        LET folder == config.local_folders[i]
        IN  /\ folder.enabled
            /\ "path" \in DOMAIN folder
            /\ FolderExists(folder.path)
            /\ IsPrefix(folder.path, DirOf(f))
            /\ \E j \in 1..Len(folder.watch_extensions) :
                   IsSuffix(folder.watch_extensions[j], NameOf(f))

\* the fragments process_file makes of a readable file f holding content c
FragmentsOf(f, c) == Range(ProcessFile(f, Md5(c), [content |-> c, readable |-> TRUE]))

\* C1: idempotence of run_update.  When a run ends and both it and the run
\* before it completed on a tree that did not change from the earlier run's
\* scan on, the later run reports chunks_added = 0, leaves the vector store
\* as it found it and leaves the Change Cache (in memory and on disk) as it
\* found it.
C1_Idempotent ==
    (pc = "ran" /\ hist.quiet = 2) =>
        /\ stats.chunks_added = 0
        /\ vector_db = hist.dbAtScan
        /\ cache_file = hist.diskAtScan
        /\ processed_files_cache = hist.cacheAtScan

\* C1 witness: a second run in a row on an unchanged tree has ended, the scan
\* visited files and the earlier run had indexed fragments and recorded them
C1_Witness ==
    /\ pc = "ran"
    /\ hist.quiet = 2
    /\ hist.visited # << >>
    /\ vector_db # EmptyBag
    /\ cache_file # EmptyCache

\* C2: every fingerprint the cache file holds for a file belongs to a content
\* whose fragments are in the vector store; a failed index write persists no
\* cache entry.
C2_CacheOnlyAfterWrite ==
    \A f \in DOMAIN cache_file :
        \A c \in Contents :
            Md5(c) = cache_file[f] =>
                \A ch \in FragmentsOf(f, c) : BagIn(ch, vector_db)

\* C3: the vector store holds at most one entry per fragment identifier.
C3_OneEntryPerChunkId ==
    \A e1 \in BagToSet(vector_db) :
        /\ CopiesIn(e1, vector_db) = 1
        /\ \A e2 \in BagToSet(vector_db) : e1.chunk_id = e2.chunk_id => e1 = e2

\* C4: a run in which process_file failed for some file ends with errors >= 1
\* (one error per failing file).
C4_FailureCounted ==
    pc = "ran" => stats.errors >= Cardinality(hist.failedNow)

\* C5: when a run has ended, every file whose processing failed in it (and
\* never succeeded in it) has the cache entry it had when the run began, in
\* memory and on disk, every file the scan reported was passed to
\* process_file, and the failed file still counts as changed against the
\* saved cache, so the next scan reports it again.
C5_FailedFileRetried ==
    pc = "ran" =>
        /\ {p[1] : p \in Range(hist.scanned)} = {a[1] : a \in hist.attemptedNow}
        /\ \A f \in hist.failedNow \ hist.okNow :
               /\ Entry(processed_files_cache, FileKey(f))
                      = Entry(hist.cacheAtScan, FileKey(f))
               /\ Entry(cache_file, FileKey(f)) = Entry(hist.cacheAtScan, FileKey(f))
               /\ \A h \in ScannedHashes(f) : IsChanged(cache_file, FileKey(f), h)

\* C5 witness: a run has ended in which f1 could not be read and f2, later in
\* the same run, was processed and recorded
C5_Witness ==
    /\ pc = "ran"
    /\ "f1" \in hist.failedNow \ hist.okNow
    /\ "f2" \in hist.okNow
    /\ "f2" \in DOMAIN cache_file
    /\ "f1" \notin DOMAIN cache_file

\* C6: a run whose batch write to the vector store failed ends with
\* errors >= 1.
C6_WriteFailureCounted ==
    (pc = "ran" /\ hist.writeFailed) => stats.errors >= 1

\* C7: the orchestrator exits 0 exactly when the run recorded no error and 1
\* otherwise, so a run in which a file failed or the index write failed
\* exits 1.
C7_ExitReflectsErrors ==
    (pc = "idle" /\ exit_code \in {0, 1} /\ child # "nostart") =>
        /\ stats.errors > 0 => exit_code = 1
        /\ exit_code = 0 =>
               /\ stats.errors = 0
               /\ hist.failedNow = {}
               /\ ~hist.writeFailed

\* C8: run-once returns the status of the update it invoked: when the child
\* exits non-zero, times out or cannot be started, the scheduler's exit
\* status is non-zero.
C8_RunOnceReturnsStatus ==
    (sched_exit # -1 /\ child \in {"rc1", "timeout", "nostart"}) => sched_exit # 0

\* C9: no run passes to process_file a file that an earlier, completed run
\* already attempted with the same bytes.
C9_NoReprocessing == pc = "processing" => hist.attemptedNow \cap hist.attempted = {}

\* C10: a scan that completes hashes every watched file exactly once.
C10_VisitedExactlyOnce ==
    (pc \in {"processing", "ran"} /\ ~ScanRaises(config.local_folders)) =>
        \A f \in Files : Watched(f) => Count(f, hist.visited) = 1

\* a configuration whose every run ends in a fatal error
FatalConfig == ~config.exists \/ ScanRaises(config.local_folders)

\* C16: a fatal error (configuration missing, exception escaping the scan)
\* ends the process with a non-zero exit code and leaves the cache file (and
\* the vector store) exactly as they were before the run; run_update counts
\* the escaping exception as an error.
C16_FatalAborts ==
    /\ (pc = "ran" /\ FatalConfig) =>
           stats.errors >= 1 /\ cache_file = hist.diskAtScan /\ vector_db = hist.dbAtScan
    /\ (pc = "idle" /\ exit_code \in {0, 1} /\ FatalConfig) =>
           exit_code # 0 /\ cache_file = hist.diskAtScan /\ vector_db = hist.dbAtScan

\* C16 witness: a run whose scan raised has exited 1 and the cache file still
\* holds the entry it held before
C16_Witness ==
    /\ pc = "idle"
    /\ exit_code = 1
    /\ config.exists
    /\ ScanRaises(config.local_folders)
    /\ stats.errors = 1
    /\ cache_file # EmptyCache

\* no watched file differs from the cache the current run began with
NothingChanged ==
    \A f \in Files :
        Watched(f) =>
            Entry(hist.cacheAtScan, FileKey(f)) = {CalculateFileHash(hist.fsAtScan[f])}

\* C17: a run whose scan finds no changed file reports files_processed = 0,
\* chunks_added = 0 and errors = 0, writes nothing to the vector store and
\* leaves the in-memory cache and the cache file as they were.
C17_NoChangeNoOp ==
    (pc = "ran" /\ ~FatalConfig /\ NothingChanged) =>
        /\ stats = NoStats
        /\ all_chunks = << >>
        /\ ~hist.writeFailed
        /\ vector_db = hist.dbAtScan
        /\ cache_file = hist.diskAtScan
        /\ processed_files_cache = hist.cacheAtScan

\* C17 witness: a run over watched files that an earlier run had indexed and
\* recorded has ended
C17_Witness ==
    /\ pc = "ran"
    /\ ~FatalConfig
    /\ NothingChanged
    /\ hist.visited # << >>
    /\ cache_file # EmptyCache
    /\ vector_db # EmptyBag

\* file f was reported by the scan of the current run, passed to process_file
\* and read as blank (the tree did not change since the scan)
BlankProcessed(f) ==
    /\ ~hist.dirty
    /\ fs[f].readable
    /\ IsBlank(fs[f].content)
    /\ <<f, fs[f].content>> \in hist.attemptedNow

\* C18: a changed file that is empty or whitespace only is scanned and
\* processed, yields no fragment, is not counted as an error and does not
\* make the process exit non-zero.
C18_BlankFileNoError ==
    \A f \in Files :
        BlankProcessed(f) =>
            /\ f \in {p[1] : p \in Range(hist.scanned)}
            /\ f \notin hist.okNow
            /\ \A i \in 1..Len(all_chunks) : all_chunks[i].source # FileKey(f)
            /\ \A e \in BagToSet(vector_db) : ~IsBlank(e.text[1])
            /\ stats.errors = 0
            /\ (pc = "idle" /\ exit_code \in {0, 1}) => exit_code = 0

\* C18 witness: a process whose run handled the blank f2 has exited
C18_Witness ==
    /\ BlankProcessed("f2")
    /\ pc = "idle"
    /\ exit_code = 0

\* the fragments accumulated and the fragments stored
AllRecords == Range(all_chunks) \cup BagToSet(vector_db)

\* C19: within the fragments of one version of one file no two different
\* fragments carry the same chunk_id, and whenever the same fragment of the
\* same file is produced again (a second pass over the file, a run with
\* another fingerprint) it carries the same chunk_id.
C19_ChunkIdsUniqueAndStable ==
    \A e1, e2 \in AllRecords :
        (e1.source = e2.source /\ e1.text[1] = e2.text[1]) =>
            (e1.chunk_id = e2.chunk_id <=> e1.text = e2.text)

\* C19 witness: the store holds two different fragments of one version of f2,
\* and one of them twice, from two passes over the file
C19_Witness ==
    \E e1, e2 \in BagToSet(vector_db) :
        /\ e1.source = FileKey("f2") /\ e2.source = FileKey("f2")
        /\ e1.text[1] = e2.text[1]
        /\ e1.text # e2.text
        /\ CopiesIn(e1, vector_db) >= 2

\* the category of f as seen from a source root: the first path segment below
\* the root, "root" when f sits directly in it
CategoryUnder(path, f) ==
    IF DirOf(f) = path THEN "root" ELSE DirOf(f)[Len(path) + 1]

\* C20: the category of every fragment is the first path segment of its file
\* below the watched source root, and "root" exactly when the file sits
\* directly under that root.
C20_CategoryUnderWatchedRoot ==
    \A e \in Range(all_chunks) :
        \E i \in 1..Len(config.local_folders) :
            LET folder == config.local_folders[i]
            IN  /\ folder.enabled
                /\ "path" \in DOMAIN folder
                /\ \E f \in Files :
                       /\ FileKey(f) = e.source
                       /\ IsPrefix(folder.path, DirOf(f))
                       /\ e.category = CategoryUnder(folder.path, f)

\* C15: a crash at any point of a run, the write of the cache file included,
\* leaves the cache file holding every entry recorded by earlier runs: what a
\* process started afterwards loads is a mapping with all the keys the file
\* held when the crashed run began, never an empty or truncated one.
C15_CrashKeepsEarlierEntries ==
    exit_code = -9 =>
        DOMAIN LoadProcessedFiles(hist.diskAtScan) \subseteq
            DOMAIN LoadProcessedFiles(cache_file)

C12_InFlightCycleFinishes ==
    sch.main = "exited" => sch.worker # "killed"

\* a cycle has failed and no later cycle has begun
FailedCycleBehind == child \in Failed /\ sch.worker # "cycle"

\* C13: while the flag is up the worker is inside its loop, whatever the last
\* cycle's outcome, and after every failed cycle another cycle begins unless
\* the flag is lowered first.
C13_LoopSurvivesFailures ==
    /\ [](sch.running => sch.worker \in {"test", "cycle", "wait"})
    /\ (FailedCycleBehind /\ sch.running) ~> (sch.worker = "cycle" \/ ~sch.running)

\* C13 witness: a cycle is running after one that failed
C13_Witness ==
    /\ sch.running
    /\ child \in Failed
    /\ sch.worker = "cycle"

\* C14: after a cycle that ended in a timeout or an exception the worker does
\* not wait the full interval before the next one.
C14_ShortPauseAfterFailure ==
    (child \in {"timeout", "nostart"} /\ sch.worker = "wait") =>
        sch.left < IntervalSeconds

\* C27: every fragment process_file returns has at least min_chunk_size
\* characters; its chunk_index is its 0-based position in the sequence the
\* splitter produced, total_chunks is the length of that sequence,
\* chunk_index < total_chunks, and the indices increase along the returned
\* list.
C27_FilterAfterSegmentation ==
    /\ \A e \in Range(all_chunks) :
           LET lens == ChunkLens(e.text[1])
           IN  /\ e.chunk_index = e.text[2]
               /\ e.total_chunks = Len(lens)
               /\ e.chunk_index < e.total_chunks
               /\ lens[e.chunk_index + 1] >= min_chunk_size
    /\ \A f \in Files :
           LET r == ProcessFile(f, CalculateFileHash(fs[f]), fs[f])
           IN  \A i, j \in 1..Len(r) : i < j => r[i].chunk_index < r[j].chunk_index

\* C27 witness: a file split in three of which the middle fragment was
\* dropped has its fragments 0 and 2 accumulated
C27_Witness ==
    \E i, j \in 1..Len(all_chunks) :
        /\ all_chunks[i].source = all_chunks[j].source
        /\ all_chunks[i].chunk_index = 0
        /\ all_chunks[j].chunk_index = 2
        /\ all_chunks[i].total_chunks = 3
        /\ all_chunks[i].text[1] = all_chunks[j].text[1]

\* C29: the fingerprint recorded for a file is the digest of the bytes its
\* fragments were made from: never the empty string of a failed hash, never
\* the digest of a version older than the one that was read.
C29_FingerprintOfIndexedBytes ==
    \A e \in Range(all_chunks) :
        /\ e.source \in DOMAIN processed_files_cache
        /\ processed_files_cache[e.source] # ""
        /\ processed_files_cache[e.source] = Md5(e.text[1])

\* C28: whatever the sequence of start_interval_mode and stop calls, at most
\* one thread is inside interval_worker's loop, and so at most one update
\* cycle runs at a time.
C28_OneWorker ==
    /\ Cardinality(InLoop) <= 1
    /\ Cardinality({i \in 1..MaxStarts : api.w[i] = "cycle"}) <= 1

\* C21: every external process of install_cron and remove_cron runs under a
\* timeout, so that a process that does not return ends the command with
\* False instead of blocking it.
C21_CrontabUnderTimeout ==
    cron.pc \in {"listing", "writing"} => cron.timeout # "none" /\ ~cron.hung

\* the job lines, the lines with the script or the marker, the non-blank lines
JobLines(t) == {i \in 1..Len(t) : HasScript(t[i])}
OursIn(t) == {i \in 1..Len(t) : HasScript(t[i]) \/ HasMarker(t[i])}
NonBlank(t) == SelectSeq(t, LAMBDA line : line # "")

\* the calls made so far: only install_cron; install_cron calls and then one
\* remove_cron
OnlyInstalls(q) == q # << >> /\ \A i \in 1..Len(q) : q[i][1] = "install"
InstallsThenRemove(q) ==
    /\ Len(q) >= 2
    /\ OnlyInstalls(SubSeq(q, 1, Len(q) - 1))
    /\ q[Len(q)][1] = "remove"

C22_FragmentAtMostS ==
    \A i \in 1..Len(chk.out) : Len(chk.out[i]) <= chk.S

\* the overlap fragment i + 1 owes to fragment i
OverlapLen(out, i, O) == IF Len(out[i]) <= O THEN Len(out[i]) ELSE O

RECURSIVE Rebuilt(_, _, _)
Rebuilt(out, O, i) ==
    IF i > Len(out) THEN << >>
    ELSE (IF i = 1 THEN out[1]
          ELSE SubSeq(out[i], OverlapLen(out, i - 1, O) + 1, Len(out[i])))
         \o Rebuilt(out, O, i + 1)

\* C24: the fragments of a document, concatenated in order after the overlap
\* prefix is removed from each but the first, are the text of the document,
\* whitespace included.
C24_Lossless ==
    chk.pc = "done" => Rebuilt(chk.out, chk.O, 1) = chk.doc

\* C25: scenario A yields exactly three fragments, beginning "Alpha.",
\* "ha.\n\nBeta." and "ta.\n\nGamma.".
C25_ScenarioA ==
    (chk.pc = "done" /\ chk.doc = ScenarioA) =>
        LET r == Final(chk.out, chk.M)
        IN  /\ Len(r) = 3
            /\ IsPrefix(<<"A", "l", "p", "h", "a", ".">>, r[1])
            /\ IsPrefix(<<"h", "a", ".", "\n", "\n", "B", "e", "t", "a", ".">>, r[2])
            /\ IsPrefix(<<"t", "a", ".", "\n", "\n", "G", "a", "m", "m", "a", ".">>, r[3])

\* C26: every segmentation that has begun ends.
C26_Terminates == (chk.pc = "run") ~> (chk.pc = "done")

\* C26 witness: a segmentation in which seeded buffers were closed has ended
C26_Witness ==
    /\ chk.pc = "done"
    /\ chk.O > 0
    /\ Len(chk.out) >= 3
    /\ Len(chk.text) = MaxLen

====
